---------------------------- MODULE Spec2Model ----------------------------
(***************************************************************************)
(* A model of the SiteTracker file exporter                                *)
(* (src/sitetracker_file_exporter.py, src/merge_sitetracker_docids_to_     *)
(* files.py): the credential resolver sf_org_auth, the Bulk API 2.0 client *)
(* (bulk2_wait_job, bulk2_fetch_results), the loader read_sitetracker_csv, *)
(* extract_docids, the filter/dedupe of main, add_file_urls and            *)
(* merge_site_tracker_and_files.                                           *)
(*                                                                         *)
(* Each component has its own program counter and its own specification,   *)
(* whose Init draws the component's inputs from bounded sets.              *)
(***************************************************************************)
EXTENDS Integers, Sequences, FiniteSets, TLC

VARIABLES
    \* sf_org_auth
    path, login_url, cli, authPc, displayCalls, loginCalls, cmdLog, data, authOut,
    \* bulk2_wait_job
    waitPc, polls, sleeps, slept, info, waitOut,
    \* bulk2_fetch_results
    fetchPc, locator, frames, sentParams, responses, fetchOut,
    \* read_sitetracker_csv / extract_docids
    loadPc, dataframe, docid_col, selected_columns, site_tracker_df, docid_set, loadOut,
    \* main's filter/dedupe, add_file_urls, merge_site_tracker_and_files
    mergePc, local_df, content_versions, merge_docids, matched_files, merged,
    \* main: its position, the stages it ran, the job and the two reports
    mainPc, stages, job_id, out_files_only, out_merged, mainErr

authVars == <<path, login_url, cli, authPc, displayCalls, loginCalls, cmdLog, data, authOut>>
waitVars == <<waitPc, polls, sleeps, slept, info, waitOut>>
fetchVars == <<fetchPc, locator, frames, sentParams, responses, fetchOut>>
loadVars == <<loadPc, dataframe, docid_col, selected_columns, site_tracker_df, docid_set, loadOut>>
mergeVars == <<mergePc, local_df, content_versions, merge_docids, matched_files, merged>>
mainVars == <<mainPc, stages, job_id, out_files_only, out_merged, mainErr>>
vars == <<authVars, waitVars, fetchVars, loadVars, mergeVars, mainVars>>

\* What a step of one component leaves alone: the other components.
notAuth == <<waitVars, fetchVars, loadVars, mergeVars, mainVars>>
notWait == <<authVars, fetchVars, loadVars, mergeVars, mainVars>>
notFetch == <<authVars, waitVars, loadVars, mergeVars, mainVars>>
notLoad == <<authVars, waitVars, fetchVars, mergeVars, mainVars>>
notMerge == <<authVars, waitVars, fetchVars, loadVars, mainVars>>

---------------------------------------------------------------------------
(* Python values.  A string is a sequence of fragments (each fragment one  *)
(* or more characters), so that len(s) > 0, concatenation and f-string     *)
(* formatting are computed; None, float NaN and pandas.NA are values of    *)
(* their own kind and equal no string.                                     *)

Str(frags) == [k |-> "str", s |-> frags]
S(x) == Str(<<x>>)
EmptyStr == Str(<<>>)
NoneV == [k |-> "None", s |-> <<>>]
NaN == [k |-> "NaN", s |-> <<>>]
NA == [k |-> "NA", s |-> <<>>]

\* bool(v) of a str-or-None value: None and "" are falsy.
Truthy(v) == v.k = "str" /\ Len(v.s) > 0
\* pandas.notna / Series.dropna: None, NaN and NA are missing.
NotNa(v) == v.k = "str"
\* str(v), f"{v}": what formatting writes for each kind of value.
Format(v) == CASE v.k = "str" -> v.s
               [] v.k = "NaN" -> <<"nan">>
               [] v.k = "NA" -> <<"<NA>">>
               [] OTHER -> <<"None">>
\* Series.astype(str) of one cell.
AsStr(v) == Str(Format(v))

\* The elements of a sequence.
Range(seq) == {seq[i] : i \in DOMAIN seq}

\* The subsequence of the elements that satisfy Test, in order.
RECURSIVE SelectIdx(_, _, _)
SelectIdx(seq, Keep, i) ==
    IF i > Len(seq) THEN <<>>
    ELSE (IF i \in Keep THEN <<seq[i]>> ELSE <<>>) \o SelectIdx(seq, Keep, i + 1)

\* All sequences over S of length at most n.
SeqUpTo(set, n) == UNION {[1..m -> set] : m \in 0..n}

---------------------------------------------------------------------------
(* sf_org_auth: pick_cli, org_display, org_login_web, the field check.     *)

Alias == "myorg"
CliOrder == <<"sf.cmd", "sf", "sfdx.cmd", "sfdx">>
NoCli == "<none>"

\* pick_cli: the first of sf.cmd, sf, sfdx.cmd, sfdx that shutil.which finds.
pick_cli(onPath) ==
    LET found == {i \in DOMAIN CliOrder : CliOrder[i] \in onPath}
    IN IF found = {} THEN NoCli
       ELSE CliOrder[CHOOSE i \in found : \A j \in found : i <= j]

\* cli.startswith("sf"): every supported name starts with "sf", sfdx included.
StartsWithSf(c) == c \in {"sf.cmd", "sf", "sfdx.cmd", "sfdx"}

\* The argv org_display runs.
DisplayCmd(c) ==
    IF StartsWithSf(c) THEN <<c, "org", "display", "--json", "--target-org", Alias>>
    ELSE <<c, "force:org:display", "--json", "-u", Alias>>

\* The argv org_login_web runs.
LoginCmd(c, url) ==
    IF StartsWithSf(c)
    THEN <<c, "org", "login", "web", "--alias", Alias>>
         \o (IF Truthy(url) THEN <<"--instance-url", url.s[1]>> ELSE <<>>)
    ELSE <<c, "force:auth:web:login", "-a", Alias>>
         \o (IF Truthy(url) THEN <<"-r", url.s[1]>> ELSE <<>>)

\* What json.loads(stdout) of a describe call can be: the "result" key absent
\* or null or {} (present = FALSE), or an object whose two fields are each
\* absent/null (None), empty, or a string.
TokenValues == {NoneV, EmptyStr, S("00Dtoken")}
UrlValues == {NoneV, EmptyStr, S("https://org.my.salesforce.com")}
EmptyDict == [present |-> FALSE, accessToken |-> NoneV, instanceUrl |-> NoneV]
DisplayData ==
    {[result |-> EmptyDict]}
    \cup {[result |-> [present |-> TRUE, accessToken |-> t, instanceUrl |-> u]] :
            t \in TokenValues, u \in UrlValues}
NoData == [result |-> EmptyDict]

\* dict.get(key) on the result object.
DictGet(d, key) == IF d.present THEN d[key] ELSE NoneV
\* data.get("result") or {}
ResultOrEmpty(d) == IF d.result.present THEN d.result ELSE EmptyDict

\* One run_cmd call: which helper made it, its argv, and whether the helper
\* returned (ok) or raised (non-zero exit; for a describe, also unparsable JSON).
Ran(op, argv, ok) == [op |-> op, argv |-> argv, ok |-> ok]

NoOut == [kind |-> "none", err |-> "", accessToken |-> NoneV, instanceUrl |-> NoneV]
AuthError(e) == [kind |-> "error", err |-> e, accessToken |-> NoneV, instanceUrl |-> NoneV]

\* A faulty variant of FieldCheck: the fields are tested with "is None", so
\* an empty token or URL is returned.
FieldCheck_NoneOnly(d) ==
    LET result == ResultOrEmpty(d)
        access_token == DictGet(result, "accessToken")
        instance_url == DictGet(result, "instanceUrl")
    IN IF access_token = NoneV \/ instance_url = NoneV
       THEN AuthError("RuntimeError: Could not extract accessToken/instanceUrl")
       ELSE [kind |-> "ok", err |-> "", accessToken |-> access_token,
             instanceUrl |-> instance_url]

\* Lines 112-117: the required-field check and the returned mapping.
FieldCheck(d) ==
    LET result == ResultOrEmpty(d)
        access_token == DictGet(result, "accessToken")
        instance_url == DictGet(result, "instanceUrl")
    IN IF ~Truthy(access_token) \/ ~Truthy(instance_url)
       THEN AuthError("RuntimeError: Could not extract accessToken/instanceUrl")
       ELSE [kind |-> "ok", err |-> "", accessToken |-> access_token,
             instanceUrl |-> instance_url]

AuthIdle ==
    /\ path = {} /\ login_url = NoneV /\ cli = NoCli /\ authPc = "idle"
    /\ displayCalls = 0 /\ loginCalls = 0 /\ cmdLog = <<>> /\ data = NoData
    /\ authOut = NoOut

AuthInit ==
    /\ path \in SUBSET Range(CliOrder)
    /\ login_url \in {NoneV, S("https://test.salesforce.com")}
    /\ cli = NoCli /\ authPc = "pick"
    /\ displayCalls = 0 /\ loginCalls = 0 /\ cmdLog = <<>> /\ data = NoData
    /\ authOut = NoOut

\* Line 85: cli = pick_cli(); FileNotFoundError ends the call.
PickCli ==
    /\ authPc = "pick"
    /\ cli' = pick_cli(path)
    /\ IF cli' = NoCli
       THEN /\ authPc' = "failed"
            /\ authOut' = AuthError("FileNotFoundError: Salesforce CLI not found on PATH")
       ELSE /\ authPc' = "display1"
            /\ authOut' = authOut
    /\ UNCHANGED <<path, login_url, displayCalls, loginCalls, cmdLog, data>>
    /\ UNCHANGED notAuth

\* Lines 106-108: the first org_display(); any exception (non-zero exit of the
\* CLI, stdout that is no JSON) is caught and leads to the login.
FirstDisplay ==
    /\ authPc = "display1"
    /\ displayCalls' = displayCalls + 1
    /\ \/ /\ \E d \in DisplayData : data' = d
          /\ cmdLog' = Append(cmdLog, Ran("display", DisplayCmd(cli), TRUE))
          /\ authPc' = "check"
       \/ /\ data' = data
          /\ cmdLog' = Append(cmdLog, Ran("display", DisplayCmd(cli), FALSE))
          /\ authPc' = "login"
    /\ UNCHANGED <<path, login_url, cli, loginCalls, authOut>>
    /\ UNCHANGED notAuth

\* Line 109: org_login_web() inside the except block; its failure propagates.
LoginWeb ==
    /\ authPc = "login"
    /\ loginCalls' = loginCalls + 1
    /\ \/ /\ authPc' = "display2"
          /\ cmdLog' = Append(cmdLog, Ran("login", LoginCmd(cli, login_url), TRUE))
          /\ authOut' = authOut
       \/ /\ authPc' = "failed"
          /\ cmdLog' = Append(cmdLog, Ran("login", LoginCmd(cli, login_url), FALSE))
          /\ authOut' = AuthError("RuntimeError: Command failed (login)")
    /\ UNCHANGED <<path, login_url, cli, displayCalls, data>>
    /\ UNCHANGED notAuth

\* A faulty variant of RetryDisplay: a failed retry logs in again instead of
\* propagating.
RetryDisplay_Loops ==
    /\ authPc = "display2"
    /\ displayCalls' = displayCalls + 1
    /\ \/ /\ \E d \in DisplayData : data' = d
          /\ cmdLog' = Append(cmdLog, Ran("display", DisplayCmd(cli), TRUE))
          /\ authPc' = "check"
       \/ /\ data' = data
          /\ cmdLog' = Append(cmdLog, Ran("display", DisplayCmd(cli), FALSE))
          /\ authPc' = "login"
    /\ UNCHANGED <<path, login_url, cli, loginCalls, authOut>>
    /\ UNCHANGED notAuth

\* Line 110: the retried org_display(), outside any try: its failure propagates.
RetryDisplay ==
    /\ authPc = "display2"
    /\ displayCalls' = displayCalls + 1
    /\ \/ /\ \E d \in DisplayData : data' = d
          /\ cmdLog' = Append(cmdLog, Ran("display", DisplayCmd(cli), TRUE))
          /\ authPc' = "check"
          /\ authOut' = authOut
       \/ /\ data' = data
          /\ cmdLog' = Append(cmdLog, Ran("display", DisplayCmd(cli), FALSE))
          /\ authPc' = "failed"
          /\ authOut' = AuthError("Exception: describe failed (retry)")
    /\ UNCHANGED <<path, login_url, cli, loginCalls>>
    /\ UNCHANGED notAuth

\* Lines 112-117.
CheckFields ==
    /\ authPc = "check"
    /\ authOut' = FieldCheck(data)
    /\ authPc' = IF authOut'.kind = "ok" THEN "done" ELSE "failed"
    /\ UNCHANGED <<path, login_url, cli, displayCalls, loginCalls, cmdLog, data>>
    /\ UNCHANGED notAuth

AuthNext == PickCli \/ FirstDisplay \/ LoginWeb \/ RetryDisplay \/ CheckFields

---------------------------------------------------------------------------
(* bulk2_wait_job: the poll loop of lines 173-182.                         *)

MaxPolls == 4
PollInterval == 3

\* The job states the status endpoint can report: the three terminal states,
\* two states of a running job, an unrecognised spelling, and no state at all.
JobStates == {NoneV, S("UploadComplete"), S("InProgress"), S("jobcomplete"),
              S("JobComplete"), S("Failed"), S("Aborted")}
\* A status payload: response.json().
Payloads == [state : JobStates, errorMessage : {NoneV, S("query timed out")}]
NoInfo == [state |-> NoneV, errorMessage |-> NoneV]
NoWaitOut == [kind |-> "none", err |-> "", state |-> NoneV, payload |-> NoInfo]

\* Line 178: state in ("JobComplete", "Failed", "Aborted").
IsTerminal(state) == state \in {S("JobComplete"), S("Failed"), S("Aborted")}

\* A faulty variant of WaitResult: only "Failed" raises, "Aborted" returns.
WaitResult_FailedOnly(payload) ==
    IF payload.state = S("Failed")
    THEN [kind |-> "error", err |-> "RuntimeError: Bulk job ended in state",
          state |-> payload.state, payload |-> payload]
    ELSE [kind |-> "ok", err |-> "", state |-> payload.state, payload |-> payload]

\* Lines 178-181: what the loop does with a terminal payload.
WaitResult(payload) ==
    IF payload.state # S("JobComplete")
    THEN [kind |-> "error", err |-> "RuntimeError: Bulk job ended in state",
          state |-> payload.state, payload |-> payload]
    ELSE [kind |-> "ok", err |-> "", state |-> payload.state, payload |-> payload]

WaitIdle ==
    /\ waitPc = "idle" /\ polls = 0 /\ sleeps = 0 /\ slept = 0
    /\ info = NoInfo /\ waitOut = NoWaitOut

WaitInit ==
    /\ waitPc = "poll" /\ polls = 0 /\ sleeps = 0 /\ slept = 0
    /\ info = NoInfo /\ waitOut = NoWaitOut

\* Lines 174-181: one status request and the decision on its answer.
Poll ==
    /\ waitPc = "poll"
    /\ polls < MaxPolls
    /\ polls' = polls + 1
    /\ \/ \* response.raise_for_status() raises
          /\ waitPc' = "failed"
          /\ waitOut' = [kind |-> "error", err |-> "HTTPError", state |-> NoneV,
                         payload |-> NoInfo]
          /\ info' = info
       \/ \E payload \in Payloads :
            /\ info' = payload
            /\ IF IsTerminal(payload.state)
               THEN /\ waitOut' = WaitResult(payload)
                    /\ waitPc' = IF waitOut'.kind = "ok" THEN "done" ELSE "failed"
               ELSE /\ waitOut' = waitOut
                    /\ waitPc' = "sleep"
    /\ UNCHANGED <<sleeps, slept>>
    /\ UNCHANGED notWait

\* A faulty variant of Sleep: the pause grows with every poll (a backoff).
Sleep_Backoff ==
    /\ waitPc = "sleep"
    /\ sleeps' = sleeps + 1
    /\ slept' = slept + PollInterval * (sleeps + 1)
    /\ waitPc' = "poll"
    /\ UNCHANGED <<polls, info, waitOut>>
    /\ UNCHANGED notWait

\* Line 182: time.sleep(3), then the loop polls again.
Sleep ==
    /\ waitPc = "sleep"
    /\ sleeps' = sleeps + 1
    /\ slept' = slept + PollInterval
    /\ waitPc' = "poll"
    /\ UNCHANGED <<polls, info, waitOut>>
    /\ UNCHANGED notWait

WaitNext == Poll \/ Sleep

---------------------------------------------------------------------------
(* bulk2_fetch_results: the pagination loop of lines 207-225.              *)

MaxPages == 3
DefaultMaxRecords == 50000

\* str.lower() on the cursor strings of the model.
LowerFrag(f) == CASE f = "NULL" -> "null"
                  [] f = "Null" -> "null"
                  [] f = "CUR2" -> "cur2"
                  [] OTHER -> f
Lower(v) == Str([i \in DOMAIN v.s |-> LowerFrag(v.s[i])])

\* The Sforce-Locator header of a response: absent, empty, a spelling of
\* "null", or an opaque cursor.
Cursors == {NoneV, EmptyStr, S("null"), S("NULL"), S("Null"), S("cur1"), S("CUR2")}

\* A response body is a sequence of lines.  A body with data is a header line
\* followed by the record lines.
BlankLines == {"", " "}
CsvHeader == "ContentDocumentId"
Bodies == {<<>>, <<" ">>, <<CsvHeader>>, <<CsvHeader, "D1">>, <<CsvHeader, "D2", "D1">>}

\* response.text.strip(): leading and trailing whitespace removed.
RECURSIVE LStrip(_)
LStrip(body) ==
    IF body # <<>> /\ Head(body) \in BlankLines THEN LStrip(Tail(body)) ELSE body
RECURSIVE RStrip(_)
RStrip(body) ==
    IF body # <<>> /\ body[Len(body)] \in BlankLines
    THEN RStrip(SubSeq(body, 1, Len(body) - 1)) ELSE body
TextStrip(body) == RStrip(LStrip(body))

\* pd.read_csv(StringIO(text)): the header line names the column, every other
\* line is one row.
ReadCsvText(body) == [i \in 1..(Len(body) - 1) |-> [ContentDocumentId |-> S(body[i + 1])]]

\* pd.concat(frames, ignore_index=True): the rows of the frames, in order.
RECURSIVE Concat(_)
Concat(fs) == IF fs = <<>> THEN <<>> ELSE Head(fs) \o Concat(Tail(fs))

\* A faulty variant of AppendFrame: the newest page is put first.
AppendFrame_Prepend(fs, frame) == <<frame>> \o fs

\* Line 219: frames.append(...)
AppendFrame(fs, frame) == Append(fs, frame)

\* A faulty variant of LoopEnds: the comparison with "null" is case-sensitive.
LoopEnds_CaseSensitive(loc) == ~Truthy(loc) \/ loc = S("null")

\* Line 222: not locator or locator.lower() == "null".
LoopEnds(loc) == ~Truthy(loc) \/ Lower(loc) = S("null")

\* Lines 211-213: the request parameters.
Params(loc) == [maxRecords |-> DefaultMaxRecords,
                locator |-> IF Truthy(loc) THEN loc ELSE NoneV]

\* Line 225.
FetchReturn(fs) == [kind |-> "ok", err |-> "", rows |-> IF fs # <<>> THEN Concat(fs) ELSE <<>>]
NoFetchOut == [kind |-> "none", err |-> "", rows |-> <<>>]

FetchIdle ==
    /\ fetchPc = "idle" /\ locator = NoneV /\ frames = <<>> /\ sentParams = <<>>
    /\ responses = <<>> /\ fetchOut = NoFetchOut

FetchInit ==
    /\ fetchPc = "loop" /\ locator = NoneV /\ frames = <<>> /\ sentParams = <<>>
    /\ responses = <<>> /\ fetchOut = NoFetchOut

\* Lines 211-225: one iteration of the loop; the iteration that breaks returns.
FetchPage ==
    /\ fetchPc = "loop"
    /\ Len(sentParams) < MaxPages
    /\ sentParams' = Append(sentParams, Params(locator))
    /\ \/ \* response.raise_for_status() raises
          /\ \E cursor \in Cursors :
                responses' = Append(responses, [ok |-> FALSE, body |-> <<>>, cursor |-> cursor])
          /\ fetchPc' = "failed"
          /\ fetchOut' = [kind |-> "error", err |-> "HTTPError", rows |-> <<>>]
          /\ UNCHANGED <<locator, frames>>
       \/ \E body \in Bodies, cursor \in Cursors :
            /\ responses' = Append(responses, [ok |-> TRUE, body |-> body, cursor |-> cursor])
            /\ frames' = IF TextStrip(body) # <<>>
                         THEN AppendFrame(frames, ReadCsvText(body))
                         ELSE frames
            /\ locator' = cursor
            /\ IF LoopEnds(locator')
               THEN /\ fetchPc' = "done"
                    /\ fetchOut' = FetchReturn(frames')
               ELSE /\ fetchPc' = "loop"
                    /\ fetchOut' = fetchOut
    /\ UNCHANGED notFetch

FetchNext == FetchPage

---------------------------------------------------------------------------
(* Tables.  A DataFrame is its column labels, in order, and its rows, in   *)
(* order; a row maps each label to the cell's value.                       *)

MaxRows == 2
MaxIds == 5
MaxSel == 2

DocIdCol == "DocId"
NoTable == [cols |-> <<>>, rows |-> <<>>]

\* The cells of column c, top to bottom.
Column(df, c) == [i \in DOMAIN df.rows |-> df.rows[i][c]]

\* dataframe[keep_cols]
SelectColumns(df, keep) ==
    [cols |-> keep,
     rows |-> [i \in DOMAIN df.rows |-> [c \in Range(keep) |-> df.rows[i][c]]]]

\* The values a cell of column c can hold in the model's tables.
CellValues(c) ==
    CASE c = DocIdCol -> {NaN, EmptyStr, S("D1"), S("D2")}
      [] c = "Id" -> {NaN, S("ATT1")}
      [] OTHER -> {S("x")}

\* All tables with the given header and at most n rows.
Tables(header, n) ==
    LET RowSet == {r \in [Range(header) -> UNION {CellValues(c) : c \in Range(header)}] :
                     \A c \in Range(header) : r[c] \in CellValues(c)}
    IN {[cols |-> header, rows |-> rs] : rs \in SeqUpTo(RowSet, n)}

---------------------------------------------------------------------------
(* read_sitetracker_csv (lines 248-258) and extract_docids (lines 271-273) *)

\* str.strip() on the column names of the model.
StripName(name) == CASE name = " Name " -> "Name"
                     [] name = " " -> ""
                     [] OTHER -> name

RequestedNames == {"Name", " Name ", DocIdCol, "Missing", "", " "}
LoadHeaders == {<<DocIdCol>>, <<"Name", DocIdCol, "Other">>, <<"Name", "Other">>}

\* selected_columns: None, or a list of names.
NoSelection == [none |-> TRUE, cols |-> <<>>]
Selections == {NoSelection}
              \cup {[none |-> FALSE, cols |-> cs] : cs \in SeqUpTo(RequestedNames, MaxSel)}

\* Line 255: [col.strip() for col in selected_columns
\*            if col and col.strip() in dataframe.columns]
RECURSIVE KeepExisting(_, _)
KeepExisting(requested, header) ==
    IF requested = <<>> THEN <<>>
    ELSE LET col == Head(requested)
         IN (IF col # "" /\ StripName(col) \in Range(header)
             THEN <<StripName(col)>> ELSE <<>>)
            \o KeepExisting(Tail(requested), header)

\* A faulty variant of KeepCols: the identifier column is not forced in.
KeepCols_NoForce(requested, header, docid) == KeepExisting(requested, header)

\* Lines 255-257: keep_cols, with the identifier column appended when missing.
KeepCols(requested, header, docid) ==
    LET keep_cols == KeepExisting(requested, header)
    IN IF docid \notin Range(keep_cols) THEN Append(keep_cols, docid) ELSE keep_cols

\* Lines 249-258 on the parsed file.
read_sitetracker_csv(df, docid, selected) ==
    IF docid \notin Range(df.cols)
    THEN [kind |-> "exit", err |-> "Column not found in SiteTracker CSV", df |-> NoTable]
    ELSE IF selected.none \/ selected.cols = <<>>
    THEN [kind |-> "ok", err |-> "", df |-> df]
    ELSE [kind |-> "ok", err |-> "",
          df |-> SelectColumns(df, KeepCols(selected.cols, df.cols, docid))]

\* Series.unique(): the first occurrence of each value, in order.
RECURSIVE Unique(_)
Unique(seq) ==
    IF seq = <<>> THEN <<>>
    ELSE LET init == Unique(SubSeq(seq, 1, Len(seq) - 1))
             last == seq[Len(seq)]
         IN IF last \in Range(init) THEN init ELSE Append(init, last)

\* A faulty variant of NonEmptyStr: zero-length strings are kept.
NonEmptyStr_KeepsBlank(v) == TRUE

NonEmptyStr(v) == Len(v.s) > 0

\* Lines 271-273.
extract_docids(df, docid) ==
    LET dropped == SelectSeq(Column(df, docid), NotNa)
        docids == [i \in DOMAIN dropped |-> AsStr(dropped[i])]
        nonempty == SelectSeq(docids, NonEmptyStr)
    IN Range(Unique(nonempty))

NoLoadOut == [kind |-> "none", err |-> "", df |-> NoTable]

LoadIdle ==
    /\ loadPc = "idle" /\ dataframe = NoTable /\ docid_col = DocIdCol
    /\ selected_columns = NoSelection /\ site_tracker_df = NoTable
    /\ docid_set = {} /\ loadOut = NoLoadOut

LoadInit ==
    /\ loadPc = "read"
    /\ \E h \in LoadHeaders : dataframe \in Tables(h, MaxRows)
    /\ docid_col = DocIdCol
    /\ selected_columns \in Selections
    /\ site_tracker_df = NoTable /\ docid_set = {} /\ loadOut = NoLoadOut

\* extract_docids called on a one-column frame as it is, as the unit test
\* calls it: up to MaxIds cells, each missing, empty or an identifier.
ExtractInit ==
    /\ loadPc = "extract"
    /\ dataframe \in Tables(<<DocIdCol>>, MaxIds)
    /\ site_tracker_df = dataframe
    /\ docid_col = DocIdCol
    /\ selected_columns = NoSelection
    /\ docid_set = {} /\ loadOut = [kind |-> "ok", err |-> "", df |-> dataframe]

\* main line 420: site_tracker_df = read_sitetracker_csv(...)
ReadCsv ==
    /\ loadPc = "read"
    /\ loadOut' = read_sitetracker_csv(dataframe, docid_col, selected_columns)
    /\ site_tracker_df' = loadOut'.df
    /\ loadPc' = IF loadOut'.kind = "ok" THEN "extract" ELSE "exit"
    /\ UNCHANGED <<dataframe, docid_col, selected_columns, docid_set>>
    /\ UNCHANGED notLoad

\* main lines 426-428: docid_set = extract_docids(...); an empty set exits.
ExtractDocids ==
    /\ loadPc = "extract"
    /\ docid_set' = extract_docids(site_tracker_df, docid_col)
    /\ IF docid_set' = {}
       THEN /\ loadPc' = "exit"
            /\ loadOut' = [kind |-> "exit", err |-> "No ContentDocumentIds found",
                           df |-> site_tracker_df]
       ELSE /\ loadPc' = "done"
            /\ loadOut' = loadOut
    /\ UNCHANGED <<dataframe, docid_col, selected_columns, site_tracker_df>>
    /\ UNCHANGED notLoad

LoadNext == ReadCsv \/ ExtractDocids

---------------------------------------------------------------------------
(* main's filter and dedupe (lines 446-453), add_file_urls (lines 310-313) *)
(* and merge_site_tracker_and_files (lines 333-349).                       *)

MaxMeta == 3

InstanceUrl == S("https://org.my.salesforce.com")
KeyCol == "ContentDocumentId"

\* The local tables of the merge: with and without the CRM row's own "Id".
MergeHeaders == {<<DocIdCol>>, <<"Id", DocIdCol>>}
LocalValues(c) == IF c = DocIdCol THEN {NaN, S("D1"), S("D2")} ELSE CellValues(c)
LocalTables ==
    UNION {{tb \in Tables(h, MaxRows) :
              \A i \in DOMAIN tb.rows : \A c \in Range(h) : tb.rows[i][c] \in LocalValues(c)} :
           h \in MergeHeaders}

\* The fetched metadata: one row per file version.  Title holds the row's
\* position in the fetched table, so that every fetched row is distinct; the
\* table may or may not carry a column named "Id".
MetaHeaders == {<<KeyCol, "Title">>, <<KeyCol, "Title", "Id">>}
MetaIds == {NaN, S("D1"), S("D2")}
MetaRow(h, i, id) ==
    [c \in Range(h) |-> CASE c = KeyCol -> id
                          [] c = "Title" -> S(ToString(i))
                          [] OTHER -> S("068V")]
MetaTables ==
    {[cols |-> h, rows |-> [i \in DOMAIN ids |-> MetaRow(h, i, ids[i])]] :
        h \in MetaHeaders, ids \in SeqUpTo(MetaIds, MaxMeta)}

\* df[name] = values: assigns the column, appending the label when it is new.
SetColumn(df, name, values) ==
    [cols |-> IF name \in Range(df.cols) THEN df.cols ELSE Append(df.cols, name),
     rows |-> [i \in DOMAIN df.rows |->
                 [c \in Range(df.cols) \cup {name} |->
                    IF c = name THEN values[i] ELSE df.rows[i][c]]]]

\* The rows of df at the indexes in Keep, in order.
SelectRows(df, Keep) == [cols |-> df.cols, rows |-> SelectIdx(df.rows, Keep, 1)]

\* Line 446: content_versions["ContentDocumentId"].astype(str)
KeyAsStr(cv) == [i \in DOMAIN cv.rows |-> AsStr(cv.rows[i][KeyCol])]
\* Lines 447-448: the tables of the model carry no ContentSize column, so
\* content_versions.get("ContentSize") is None and both size columns are NaN.
SizeMissing(cv) == [i \in DOMAIN cv.rows |-> NaN]
TypedVersions(cv) ==
    SetColumn(SetColumn(SetColumn(cv, KeyCol, KeyAsStr(cv)), "ContentSizeBytes", SizeMissing(cv)),
              "ContentSizeMB", SizeMissing(cv))

\* Line 450: content_versions[content_versions["ContentDocumentId"].isin(docid_set)]
FilterToDocids(cv, docids) ==
    SelectRows(cv, {i \in DOMAIN cv.rows : cv.rows[i][KeyCol] \in docids})

\* A faulty variant of DropDuplicates: keep="last".
DropDuplicates_KeepLast(df) ==
    SelectRows(df, {i \in DOMAIN df.rows :
                      \A j \in (i + 1)..Len(df.rows) : df.rows[j][KeyCol] # df.rows[i][KeyCol]})

\* Line 453: drop_duplicates(subset=["ContentDocumentId"]), keep="first".
DropDuplicates(df) ==
    SelectRows(df, {i \in DOMAIN df.rows :
                      \A j \in 1..(i - 1) : df.rows[j][KeyCol] # df.rows[i][KeyCol]})

\* A faulty variant of FileUrl: the record page of the wrong object.
FileUrl_WrongObject(instance_url, content_id) ==
    Str(instance_url.s \o <<"/lightning/r/ContentVersion/">> \o Format(content_id)
        \o <<"/view">>)

\* Lines 310-312.
FileUrl(instance_url, content_id) ==
    Str(instance_url.s \o <<"/lightning/r/ContentDocument/">> \o Format(content_id)
        \o <<"/view">>)
add_file_urls(df, instance_url) ==
    SetColumn(df, "FileUrl",
              [i \in DOMAIN df.rows |-> FileUrl(instance_url, df.rows[i][KeyCol])])

\* Lines 343-347: the lambda applied to each "Id".
AttachmentUrl(instance_url, attachment_id) ==
    IF NotNa(attachment_id)
    THEN Str(instance_url.s \o <<"/lightning/r/sitetracker__Attachment__c/">>
             \o Format(attachment_id) \o <<"/view">>)
    ELSE NA

\* suffixes=("", "_File"): the label of a metadata column whose name the local
\* table also has.
Suffixed(c) == CASE c = "Id" -> "Id_File"
                 [] c = "Title" -> "Title_File"
                 [] c = KeyCol -> "ContentDocumentId_File"
                 [] c = DocIdCol -> "DocId_File"
                 [] OTHER -> c
\* The label a column of the right table gets in the merged table.
RightLabel(c, leftCols) == IF c \in Range(leftCols) THEN Suffixed(c) ELSE c

\* pandas matches equal keys, and a missing key with a missing key.
KeyEq(a, b) == a = b \/ (~NotNa(a) /\ ~NotNa(b))

\* The rows of the right table that match a left row, in the right's order.
Matches(leftRow, right, left_on, right_on) ==
    SelectIdx(right.rows, {j \in DOMAIN right.rows :
                             KeyEq(leftRow[left_on], right.rows[j][right_on])}, 1)

\* One merged row: the left row's cells, then the right row's cells under
\* their merged labels (hasRight = FALSE: no match, every right cell missing).
JoinRow(leftRow, rightRow, hasRight, leftCols, rightCols) ==
    [c \in Range(leftCols) \cup {RightLabel(r, leftCols) : r \in Range(rightCols)} |->
        IF c \in Range(leftCols) THEN leftRow[c]
        ELSE LET r == CHOOSE r \in Range(rightCols) : RightLabel(r, leftCols) = c
             IN IF hasRight THEN rightRow[r] ELSE NaN]

\* A faulty variant of LeftJoinRows: how="inner", an unmatched left row is dropped.
LeftJoinRows_Inner(leftRow, left, right, left_on, right_on) ==
    LET ms == Matches(leftRow, right, left_on, right_on)
    IN [j \in DOMAIN ms |-> JoinRow(leftRow, ms[j], TRUE, left.cols, right.cols)]

\* The rows a left row contributes to a left join.
LeftJoinRows(leftRow, left, right, left_on, right_on) ==
    LET ms == Matches(leftRow, right, left_on, right_on)
    IN IF ms = <<>>
       THEN <<JoinRow(leftRow, leftRow, FALSE, left.cols, right.cols)>>
       ELSE [j \in DOMAIN ms |-> JoinRow(leftRow, ms[j], TRUE, left.cols, right.cols)]

RECURSIVE JoinFrom(_, _, _, _, _)
JoinFrom(i, left, right, left_on, right_on) ==
    IF i > Len(left.rows) THEN <<>>
    ELSE LeftJoinRows(left.rows[i], left, right, left_on, right_on)
         \o JoinFrom(i + 1, left, right, left_on, right_on)

\* Lines 333-339: site_tracker_df.merge(files_df, how="left", ...).
LeftMerge(left, right, left_on, right_on) ==
    [cols |-> left.cols \o [k \in DOMAIN right.cols |-> RightLabel(right.cols[k], left.cols)],
     rows |-> JoinFrom(1, left, right, left_on, right_on)]

\* Line 341: the test that decides whether the URL column is built.
HasIdColumn(left, joined) == "Id" \in Range(joined.cols)

\* Lines 333-349.
merge_site_tracker_and_files(site_df, files_df, docid, instance_url) ==
    LET joined == LeftMerge(site_df, files_df, docid, KeyCol)
    IN IF HasIdColumn(site_df, joined)
       THEN SetColumn(joined, "SiteTrackerAttachmentUrl",
                      [i \in DOMAIN joined.rows |->
                         AttachmentUrl(instance_url, joined.rows[i]["Id"])])
       ELSE joined

MergeIdle ==
    /\ mergePc = "idle" /\ local_df = NoTable /\ content_versions = NoTable
    /\ merge_docids = {} /\ matched_files = NoTable /\ merged = NoTable

MergeInit ==
    /\ mergePc = "start"
    /\ local_df \in LocalTables
    /\ content_versions \in MetaTables
    /\ merge_docids = extract_docids(local_df, DocIdCol)
    /\ matched_files = NoTable /\ merged = NoTable

\* main lines 446-453, reached only with a non-empty identifier set (line
\* 427) and a non-empty fetched table (line 441).  The table main fetched has
\* the columns of build_contentversion_soql, which selects no "Id".
FilterDedupe ==
    /\ mergePc = "start"
    /\ merge_docids # {}
    /\ content_versions.rows # <<>>
    /\ "Id" \notin Range(content_versions.cols)
    /\ content_versions' = TypedVersions(content_versions)
    /\ matched_files' = DropDuplicates(FilterToDocids(content_versions', merge_docids))
    /\ mergePc' = "urls"
    /\ UNCHANGED <<local_df, merge_docids, merged>>
    /\ UNCHANGED notMerge

\* main line 454.
AddFileUrls ==
    /\ mergePc = "urls"
    /\ matched_files' = add_file_urls(matched_files, InstanceUrl)
    /\ mergePc' = "merge"
    /\ UNCHANGED <<local_df, content_versions, merge_docids, merged>>
    /\ UNCHANGED notMerge

\* main line 458: the merge onto the filtered, deduplicated metadata.
MergeMatched ==
    /\ mergePc = "merge"
    /\ merged' = merge_site_tracker_and_files(local_df, matched_files, DocIdCol, InstanceUrl)
    /\ mergePc' = "done"
    /\ UNCHANGED <<local_df, content_versions, merge_docids, matched_files>>
    /\ UNCHANGED notMerge

\* merge_site_tracker_and_files called on two tables as they are, as the unit
\* test calls it: the metadata table is whatever the caller passes.
MergeDirect ==
    /\ mergePc = "start"
    /\ merged' = merge_site_tracker_and_files(local_df, content_versions, DocIdCol, InstanceUrl)
    /\ mergePc' = "direct"
    /\ UNCHANGED <<local_df, content_versions, merge_docids, matched_files>>
    /\ UNCHANGED notMerge

MergeNext == FilterDedupe \/ AddFileUrls \/ MergeMatched \/ MergeDirect

---------------------------------------------------------------------------
(* main (lines 408-464): one action per statement that can end the run or  *)
(* write a report.  A call of a helper is one step whose outcome is one of *)
(* the outcomes of the helper: its return value or the exception it lets   *)
(* through, which ends the process since main catches nothing.             *)

\* The stages of a run, in the order of main's statements.
StageOrder == <<"authenticate", "load", "create_job", "wait", "fetch",
                "write_files_only", "write_merged">>
Stage(name, ok) == [stage |-> name, ok |-> ok]

\* A report file: absent, or the table to_csv wrote.
NoFile == [written |-> FALSE, table |-> NoTable]
Written(df) == [written |-> TRUE, table |-> df]

\* The local tables of a run: with the identifier column or without it.
MainHeaders == {<<DocIdCol>>, <<"Name">>}
\* What bulk2_fetch_results can return to main: pd.DataFrame() when no page
\* had data, else the rows of the pages under the header of the query.
MainFetched ==
    {NoTable} \cup {tb \in MetaTables : tb.cols = <<KeyCol, "Title">>}

\* What main never assigns: the helpers' own locals and main's arguments.
mainArgs ==
    <<path, login_url, cli, authPc, displayCalls, loginCalls, cmdLog, data,
      waitPc, polls, sleeps, slept, fetchVars,
      loadPc, dataframe, docid_col, selected_columns,
      mergePc, local_df, merge_docids>>

MainIdle ==
    /\ mainPc = "idle" /\ stages = <<>> /\ job_id = NoneV
    /\ out_files_only = NoFile /\ out_merged = NoFile /\ mainErr = ""

MainInit ==
    /\ mainPc = "auth" /\ stages = <<>> /\ job_id = NoneV
    /\ out_files_only = NoFile /\ out_merged = NoFile /\ mainErr = ""
    /\ loadPc = "idle"
    /\ \E h \in MainHeaders : dataframe \in Tables(h, MaxRows)
    /\ docid_col = DocIdCol
    /\ selected_columns = NoSelection
    /\ site_tracker_df = NoTable /\ docid_set = {} /\ loadOut = NoLoadOut

\* Lines 410-412: auth = sf_org_auth(...), which returns the checked mapping
\* or raises (no CLI, a failed command, a missing field).
MainAuth ==
    /\ mainPc = "auth"
    /\ \/ \E d \in DisplayData : authOut' = FieldCheck(d)
       \/ authOut' = AuthError("FileNotFoundError: Salesforce CLI not found on PATH")
       \/ authOut' = AuthError("RuntimeError: Command failed (login)")
    /\ stages' = Append(stages, Stage("authenticate", authOut'.kind = "ok"))
    /\ mainPc' = IF authOut'.kind = "ok" THEN "load" ELSE "halted"
    /\ mainErr' = authOut'.err
    /\ UNCHANGED <<info, waitOut, site_tracker_df, docid_set, loadOut, content_versions,
                   matched_files, merged, job_id, out_files_only, out_merged>>
    /\ UNCHANGED mainArgs

\* Lines 420-428: read_sitetracker_csv, extract_docids, and the exit on an
\* empty identifier set.
MainLoad ==
    /\ mainPc = "load"
    /\ loadOut' = read_sitetracker_csv(dataframe, docid_col, selected_columns)
    /\ site_tracker_df' = loadOut'.df
    /\ IF loadOut'.kind # "ok"
       THEN /\ docid_set' = docid_set
            /\ mainPc' = "halted"
            /\ mainErr' = loadOut'.err
       ELSE /\ docid_set' = extract_docids(site_tracker_df', docid_col)
            /\ mainPc' = IF docid_set' = {} THEN "halted" ELSE "create"
            /\ mainErr' = IF docid_set' = {}
                          THEN "No ContentDocumentIds found in the SiteTracker CSV."
                          ELSE ""
    /\ stages' = Append(stages, Stage("load", mainPc' = "create"))
    /\ UNCHANGED <<authOut, info, waitOut, content_versions, matched_files, merged,
                   job_id, out_files_only, out_merged>>
    /\ UNCHANGED mainArgs

\* Line 435: bulk2_create_job returns the job id or raises on a status >= 400.
MainCreateJob ==
    /\ mainPc = "create"
    /\ \/ /\ job_id' = S("750job")
          /\ mainPc' = "wait"
          /\ mainErr' = ""
       \/ /\ job_id' = job_id
          /\ mainPc' = "halted"
          /\ mainErr' = "RuntimeError: Create job failed"
    /\ stages' = Append(stages, Stage("create_job", mainPc' = "wait"))
    /\ UNCHANGED <<authOut, info, waitOut, site_tracker_df, docid_set, loadOut,
                   content_versions, matched_files, merged, out_files_only, out_merged>>
    /\ UNCHANGED mainArgs

\* Line 436: bulk2_wait_job ends with the payload of a terminal state, which
\* it returns or raises on, or with the error of a status request.  While the
\* job reports no terminal state the call does not return and main stays here.
MainWait ==
    /\ mainPc = "wait"
    /\ \/ \E payload \in Payloads :
            /\ IsTerminal(payload.state)
            /\ info' = payload
            /\ waitOut' = WaitResult(payload)
       \/ /\ info' = info
          /\ waitOut' = [kind |-> "error", err |-> "HTTPError", state |-> NoneV,
                         payload |-> NoInfo]
    /\ mainPc' = IF waitOut'.kind = "ok" THEN "fetch" ELSE "halted"
    /\ mainErr' = waitOut'.err
    /\ stages' = Append(stages, Stage("wait", waitOut'.kind = "ok"))
    /\ UNCHANGED <<authOut, site_tracker_df, docid_set, loadOut, content_versions,
                   matched_files, merged, job_id, out_files_only, out_merged>>
    /\ UNCHANGED mainArgs

\* Lines 437-439: bulk2_fetch_results returns a table or raises on a page.
MainFetch ==
    /\ mainPc = "fetch"
    /\ \/ /\ content_versions' \in MainFetched
          /\ mainPc' = "check"
          /\ mainErr' = ""
       \/ /\ content_versions' = content_versions
          /\ mainPc' = "halted"
          /\ mainErr' = "HTTPError"
    /\ stages' = Append(stages, Stage("fetch", mainPc' = "check"))
    /\ UNCHANGED <<authOut, info, waitOut, site_tracker_df, docid_set, loadOut,
                   matched_files, merged, job_id, out_files_only, out_merged>>
    /\ UNCHANGED mainArgs

\* A faulty variant of MainMatch: no exit on an empty result.
MainMatch_NoEmptyCheck ==
    /\ mainPc = "check"
    /\ content_versions' = TypedVersions(content_versions)
    /\ matched_files' =
          add_file_urls(DropDuplicates(FilterToDocids(content_versions', docid_set)),
                        authOut.instanceUrl)
    /\ mainPc' = "write_files"
    /\ mainErr' = ""
    /\ UNCHANGED <<authOut, info, waitOut, site_tracker_df, docid_set, loadOut, merged,
                   stages, job_id, out_files_only, out_merged>>
    /\ UNCHANGED mainArgs

\* Lines 441-454: the exit on an empty result, then the typed columns, the
\* filter to the identifier set, the dedupe and the file URLs.
MainMatch ==
    /\ mainPc = "check"
    /\ IF content_versions.rows = <<>>
       THEN /\ mainPc' = "halted"
            /\ mainErr' = "No ContentVersion rows returned. (Permissions? Query All Files?)"
            /\ UNCHANGED <<content_versions, matched_files>>
       ELSE /\ content_versions' = TypedVersions(content_versions)
            /\ matched_files' =
                  add_file_urls(DropDuplicates(FilterToDocids(content_versions', docid_set)),
                                authOut.instanceUrl)
            /\ mainPc' = "write_files"
            /\ mainErr' = ""
    /\ UNCHANGED <<authOut, info, waitOut, site_tracker_df, docid_set, loadOut, merged,
                   stages, job_id, out_files_only, out_merged>>
    /\ UNCHANGED mainArgs

\* Line 455: matched_files.to_csv(args.out_files_only), which writes the file
\* or raises when the path cannot be opened.
MainWriteFilesOnly ==
    /\ mainPc = "write_files"
    /\ \/ /\ out_files_only' = Written(matched_files)
          /\ mainPc' = "merge"
          /\ mainErr' = ""
       \/ /\ out_files_only' = out_files_only
          /\ mainPc' = "halted"
          /\ mainErr' = "OSError"
    /\ stages' = Append(stages, Stage("write_files_only", mainPc' = "merge"))
    /\ UNCHANGED <<authOut, info, waitOut, site_tracker_df, docid_set, loadOut,
                   content_versions, matched_files, merged, job_id, out_merged>>
    /\ UNCHANGED mainArgs

\* Line 458.
MainMerge ==
    /\ mainPc = "merge"
    /\ merged' = merge_site_tracker_and_files(site_tracker_df, matched_files, docid_col,
                                              authOut.instanceUrl)
    /\ mainPc' = "write_merged"
    /\ UNCHANGED <<authOut, info, waitOut, site_tracker_df, docid_set, loadOut,
                   content_versions, matched_files, stages, job_id, out_files_only,
                   out_merged, mainErr>>
    /\ UNCHANGED mainArgs

\* Line 459: merged.to_csv(args.out), which writes the file or raises when
\* the path cannot be opened.
MainWriteMerged ==
    /\ mainPc = "write_merged"
    /\ \/ /\ out_merged' = Written(merged)
          /\ mainPc' = "done"
          /\ mainErr' = ""
       \/ /\ out_merged' = out_merged
          /\ mainPc' = "halted"
          /\ mainErr' = "OSError"
    /\ stages' = Append(stages, Stage("write_merged", mainPc' = "done"))
    /\ UNCHANGED <<authOut, info, waitOut, site_tracker_df, docid_set, loadOut,
                   content_versions, matched_files, merged, job_id, out_files_only>>
    /\ UNCHANGED mainArgs

MainNext ==
    \/ MainAuth \/ MainLoad \/ MainCreateJob \/ MainWait \/ MainFetch
    \/ MainMatch \/ MainWriteFilesOnly \/ MainMerge \/ MainWriteMerged

---------------------------------------------------------------------------
(* The specifications: one per component, the other components idle.       *)

InitAuth == AuthInit /\ WaitIdle /\ FetchIdle /\ LoadIdle /\ MergeIdle /\ MainIdle
SpecAuth == InitAuth /\ [][AuthNext]_vars

InitWait == AuthIdle /\ WaitInit /\ FetchIdle /\ LoadIdle /\ MergeIdle /\ MainIdle
SpecWait == InitWait /\ [][WaitNext]_vars

\* The poll loop under the scheduling of a single blocking thread: a request
\* that can be sent is sent, a sleep that was started ends.
SpecWaitFair == InitWait /\ [][WaitNext]_vars /\ WF_vars(Poll) /\ WF_vars(Sleep)

InitFetch == AuthIdle /\ WaitIdle /\ FetchInit /\ LoadIdle /\ MergeIdle /\ MainIdle
SpecFetch == InitFetch /\ [][FetchNext]_vars

InitLoad == AuthIdle /\ WaitIdle /\ FetchIdle /\ LoadInit /\ MergeIdle /\ MainIdle
SpecLoad == InitLoad /\ [][LoadNext]_vars

InitExtract == AuthIdle /\ WaitIdle /\ FetchIdle /\ ExtractInit /\ MergeIdle /\ MainIdle
ExtractNext == ExtractDocids
SpecExtract == InitExtract /\ [][ExtractNext]_vars

InitMerge == AuthIdle /\ WaitIdle /\ FetchIdle /\ LoadIdle /\ MergeInit /\ MainIdle
SpecMerge == InitMerge /\ [][MergeNext]_vars

\* A whole run of main.
InitMain == AuthIdle /\ WaitIdle /\ FetchIdle /\ MergeIdle /\ MainInit
SpecMain == InitMain /\ [][MainNext]_vars

---------------------------------------------------------------------------
(* Properties of sf_org_auth.                                              *)

CountOp(log, op) == Cardinality({i \in DOMAIN log : log[i].op = op})

\* C7: on any failure of the first describe call the interactive login is
\* triggered and the describe call is retried exactly once: a run makes at most
\* two describe calls and at most one login call, the login comes only after a
\* failed first describe, and a failed login or a failed retry ends the run.
C7_LoginOnceRetryOnce ==
    /\ displayCalls = CountOp(cmdLog, "display") /\ displayCalls <= 2
    /\ loginCalls = CountOp(cmdLog, "login") /\ loginCalls <= 1
    /\ Len(cmdLog) <= 3
    /\ Len(cmdLog) >= 1 =>
          /\ cmdLog[1].op = "display"
          /\ ~cmdLog[1].ok => (authPc = "login" /\ Len(cmdLog) = 1) \/ Len(cmdLog) >= 2
          /\ cmdLog[1].ok => Len(cmdLog) = 1 /\ authPc \in {"check", "done", "failed"}
    /\ Len(cmdLog) >= 2 =>
          /\ cmdLog[2].op = "login" /\ ~cmdLog[1].ok
          /\ ~cmdLog[2].ok => Len(cmdLog) = 2 /\ authPc = "failed" /\ authOut.kind = "error"
          /\ cmdLog[2].ok => (authPc = "display2" /\ Len(cmdLog) = 2) \/ Len(cmdLog) = 3
    /\ Len(cmdLog) = 3 =>
          /\ cmdLog[3].op = "display" /\ cmdLog[2].ok
          /\ ~cmdLog[3].ok => authPc = "failed" /\ authOut.kind = "error"
          /\ cmdLog[3].ok => authPc \in {"check", "done", "failed"}

\* A run that logged in after a failed describe and succeeded on the retry.
C7_Witness ==
    /\ authPc = "done" /\ displayCalls = 2 /\ loginCalls = 1
    /\ ~cmdLog[1].ok /\ cmdLog[2].ok /\ cmdLog[3].ok

\* The describe output lacks a required field: no result object, or a token or
\* base URL that is absent, null or empty.
LacksField(d) ==
    \/ ~d.result.present
    \/ d.result.accessToken \in {NoneV, EmptyStr}
    \/ d.result.instanceUrl \in {NoneV, EmptyStr}

\* The call got past its describe calls: the last command is a describe that returned.
Described == cmdLog # <<>> /\ cmdLog[Len(cmdLog)].op = "display" /\ cmdLog[Len(cmdLog)].ok

\* C8: when the describe output (after the retry, if there was one) lacks
\* accessToken or instanceUrl the call fails for good, and a returned result
\* never has a missing or empty token or base URL.
C8_MissingFieldIsFatal ==
    /\ authOut.kind = "ok" <=> authPc = "done"
    /\ authOut.kind = "error" => authPc = "failed"
    /\ authPc = "done" =>
          /\ Described /\ ~LacksField(data)
          /\ authOut.accessToken = data.result.accessToken
          /\ authOut.instanceUrl = data.result.instanceUrl
          /\ authOut.accessToken.k = "str" /\ authOut.accessToken.s # <<>>
          /\ authOut.instanceUrl.k = "str" /\ authOut.instanceUrl.s # <<>>
    /\ Described /\ LacksField(data) /\ authPc # "check" =>
          /\ authPc = "failed"
          /\ authOut = AuthError("RuntimeError: Could not extract accessToken/instanceUrl")

\* After a login and a retry, the describe output has a token and an empty base
\* URL, and the call has failed.
C8_Witness ==
    /\ authPc = "failed" /\ Len(cmdLog) = 3 /\ Described
    /\ data.result.present /\ data.result.accessToken = S("00Dtoken")
    /\ data.result.instanceUrl = EmptyStr

---------------------------------------------------------------------------
(* Properties of bulk2_wait_job.                                           *)

\* C5: the wait raises on a terminal state other than JobComplete (Failed,
\* Aborted), the error carrying the state and the whole status payload, and it
\* returns normally only when the observed state is JobComplete.
C5_RaisesOnFailureStates ==
    /\ waitOut.kind = "ok" <=> waitPc = "done"
    /\ waitPc = "done" => info.state = S("JobComplete") /\ waitOut.payload = info
    /\ info.state \in {S("Failed"), S("Aborted")} =>
          /\ waitPc = "failed"
          /\ waitOut.kind = "error"
          /\ waitOut.err = "RuntimeError: Bulk job ended in state"
          /\ waitOut.state = info.state
          /\ waitOut.payload = info
    /\ info.state = S("JobComplete") => waitPc = "done"

\* The job was seen running, then Aborted with an error message in the payload.
C5_Witness ==
    /\ waitPc = "failed" /\ polls >= 2 /\ sleeps >= 1
    /\ info = [state |-> S("Aborted"), errorMessage |-> S("query timed out")]
    /\ waitOut.payload = info

---------------------------------------------------------------------------
(* Properties of bulk2_fetch_results.                                      *)

\* The cursor asks for another page: present, non-empty, and not "null" in any
\* letter case.
LiveCursor(c) ==
    /\ c.k = "str" /\ c.s # <<>>
    /\ c \notin {S("null"), S("NULL"), S("Null")}

\* C4: another page is requested if and only if the last response carried a
\* cursor that is present, non-empty and not "null" in any letter case; that
\* request carries exactly that cursor as its locator, the first request
\* carries none, and the loop stops after the first response whose cursor is
\* absent, empty or "null".  (A response that raise_for_status rejects ends
\* the call with the error, whatever its headers.)
C4_PaginationFollowsCursor ==
    /\ Len(sentParams) = Len(responses)
    /\ sentParams # <<>> => sentParams[1].locator = NoneV
    /\ \A i \in DOMAIN responses :
          LET r == responses[i]
          IN /\ i < Len(responses) =>
                   /\ r.ok /\ LiveCursor(r.cursor)
                   /\ sentParams[i + 1].locator = r.cursor
             /\ i = Len(responses) /\ r.ok /\ LiveCursor(r.cursor) =>
                   fetchPc = "loop" /\ locator = r.cursor
             /\ i = Len(responses) /\ r.ok /\ ~LiveCursor(r.cursor) => fetchPc = "done"
             /\ ~r.ok => fetchPc = "failed"
    /\ responses = <<>> => fetchPc = "loop"

\* Three pages were fetched; the last carried the cursor "NULL".
C4_Witness ==
    /\ fetchPc = "done" /\ Len(responses) = 3
    /\ responses[1].cursor = S("cur1") /\ responses[2].cursor = S("CUR2")
    /\ responses[3].cursor = S("NULL")
    /\ sentParams[3].locator = S("CUR2")

\* The body has data: some line is not blank.
HasData(body) == \E i \in DOMAIN body : body[i] \notin BlankLines

\* The rows of the pages with data, page after page, in arrival order.
RECURSIVE PagesInOrder(_)
PagesInOrder(rs) ==
    IF rs = <<>> THEN <<>>
    ELSE (IF HasData(Head(rs).body)
          THEN [i \in 1..(Len(Head(rs).body) - 1) |->
                  [ContentDocumentId |-> S(Head(rs).body[i + 1])]]
          ELSE <<>>)
         \o PagesInOrder(Tail(rs))

\* C9: the result is the concatenation, in arrival order, of exactly the pages
\* whose body was not empty or whitespace-only (such pages add nothing and do
\* not stop the loop), and it is an empty table, not an error, when no page
\* had data.
C9_ConcatenatesPagesInOrder ==
    /\ fetchPc = "done" =>
          /\ fetchOut.kind = "ok"
          /\ fetchOut.rows = PagesInOrder(responses)
          /\ (\A i \in DOMAIN responses : ~HasData(responses[i].body)) => fetchOut.rows = <<>>
    /\ fetchPc = "loop" => Len(frames) = Cardinality({i \in DOMAIN responses :
                                                          HasData(responses[i].body)})
    /\ \A i \in DOMAIN responses :
          i < Len(responses) => responses[i].ok /\ LiveCursor(responses[i].cursor)

\* A page of data, then a whitespace-only page, then another page of data.
C9_Witness ==
    /\ fetchPc = "done" /\ Len(responses) = 3
    /\ responses[1].body = <<CsvHeader, "D2", "D1">>
    /\ responses[2].body = <<" ">>
    /\ responses[3].body = <<CsvHeader, "D1">>
    /\ fetchOut.rows = <<[ContentDocumentId |-> S("D2")], [ContentDocumentId |-> S("D1")],
                         [ContentDocumentId |-> S("D1")]>>

---------------------------------------------------------------------------
(* Properties of read_sitetracker_csv and extract_docids.                  *)

\* extract_docids has run on site_tracker_df.
Extracted == loadPc = "done" \/ (loadPc = "exit" /\ loadOut.err = "No ContentDocumentIds found")

\* C2: extract_docids returns exactly the set of distinct non-empty string
\* values of the identifier column: no missing value and no zero-length string
\* is in it, every other value is, and since the result is a function of the
\* set of the column's values it is the same however the rows are ordered or
\* repeated.
C2_DistinctNonEmptyIds ==
    Extracted =>
       /\ \A i \in DOMAIN site_tracker_df.rows :
             LET v == site_tracker_df.rows[i][docid_col]
             IN (v.k = "str" /\ v.s # <<>>) <=> v \in docid_set
       /\ \A d \in docid_set :
             /\ d.k = "str" /\ d.s # <<>>
             /\ \E i \in DOMAIN site_tracker_df.rows : site_tracker_df.rows[i][docid_col] = d
       /\ NaN \notin docid_set /\ EmptyStr \notin docid_set

\* The unit test's column: "D1", "", missing, "D1" again, "D2".
C2_Witness ==
    /\ loadPc = "done"
    /\ Column(site_tracker_df, docid_col) = <<S("D1"), EmptyStr, NaN, S("D1"), S("D2")>>
    /\ docid_set = {S("D1"), S("D2")}

\* The requested names, trimmed, that are labels of the header, in requested order.
RequestedExisting(requested, header) ==
    LET trimmed == [i \in DOMAIN requested |-> StripName(requested[i])]
    IN SelectIdx(trimmed, {i \in DOMAIN trimmed : \E k \in DOMAIN header : header[k] = trimmed[i]}, 1)

\* A column subset was requested and the file has the identifier column.
SubsetRead ==
    /\ loadPc \in {"extract", "done"} \/ (loadPc = "exit" /\ loadOut.err = "No ContentDocumentIds found")
    /\ ~selected_columns.none /\ selected_columns.cols # <<>>

\* C3: when a column subset is requested, the loaded table's columns are exactly
\* the requested columns (names compared after trimming) that exist in the
\* header, in requested order, plus the identifier column, which is always
\* there: in its requested place when requested, appended last when omitted.
\* No label absent from the header and no unrequested label other than the
\* identifier appears, and the rows keep their cells.
C3_RequestedColumnsPlusDocId ==
    SubsetRead =>
       LET out == site_tracker_df.cols
           want == RequestedExisting(selected_columns.cols, dataframe.cols)
       IN /\ \E k \in DOMAIN out : out[k] = docid_col
          /\ \A k \in DOMAIN out : out[k] \in Range(dataframe.cols)
          /\ \A k \in DOMAIN out :
                out[k] = docid_col
                \/ \E r \in Range(selected_columns.cols) : StripName(r) = out[k]
          /\ IF docid_col \in Range(want)
             THEN out = want
             ELSE out = want \o <<docid_col>>
          /\ Len(site_tracker_df.rows) = Len(dataframe.rows)
          /\ \A i \in DOMAIN site_tracker_df.rows : \A k \in DOMAIN out :
                site_tracker_df.rows[i][out[k]] = dataframe.rows[i][out[k]]

\* The unit test's call: "Name" is requested from a file with the columns
\* Name, DocId, Other; the result has the columns Name, DocId.
C3_Witness ==
    /\ loadPc = "extract"
    /\ dataframe.cols = <<"Name", DocIdCol, "Other">>
    /\ selected_columns = [none |-> FALSE, cols |-> <<"Name">>]
    /\ site_tracker_df.cols = <<"Name", DocIdCol>>
    /\ Len(site_tracker_df.rows) = 2

---------------------------------------------------------------------------
(* Properties of the filter/dedupe and of merge_site_tracker_and_files.    *)

\* The merge has returned: on main's filtered table, or on the caller's table.
Merged == mergePc \in {"done", "direct"}
\* The metadata table the merge was given.
FilesGiven == IF mergePc = "done" THEN matched_files ELSE content_versions

\* No two rows of the table have the same identifier (two missing identifiers
\* are the same identifier).
OneRowPerId(df) ==
    \A i, j \in DOMAIN df.rows :
       i # j => ~(df.rows[i][KeyCol] = df.rows[j][KeyCol]
                  \/ (df.rows[i][KeyCol].k # "str" /\ df.rows[j][KeyCol].k # "str"))

\* C1 as stated: for every local table and every metadata table the merged
\* table has exactly as many rows as the local table.
C1_RowCountForAnyMetadata ==
    Merged => Len(merged.rows) = Len(local_df.rows)

\* C1, amended: for every local table and every metadata table with at most
\* one row per identifier (as the table main passes always is), the merged
\* table has exactly as many rows as the local table, and its rows are the
\* local rows in order, local rows with a missing or unmatched identifier
\* included.
C1_RowCountForDedupedMetadata ==
    /\ mergePc = "done" => OneRowPerId(matched_files)
    /\ Merged /\ OneRowPerId(FilesGiven) =>
          /\ Len(merged.rows) = Len(local_df.rows)
          /\ \A i \in DOMAIN local_df.rows : \A c \in Range(local_df.cols) :
                merged.rows[i][c] = local_df.rows[i][c]

\* main merged a local table of a row with a missing identifier and a row with
\* a matched one onto the deduplicated metadata.
C1_Witness ==
    /\ mergePc = "done" /\ Len(local_df.rows) = 2 /\ Len(merged.rows) = 2
    /\ local_df.rows[1][DocIdCol] = NaN
    /\ local_df.rows[2][DocIdCol] = S("D1")
    /\ Len(content_versions.rows) = 2
    /\ \A j \in DOMAIN content_versions.rows : content_versions.rows[j][KeyCol] = S("D1")
    /\ merged.rows[1]["Title"] = NaN
    /\ merged.rows[2]["Title"] = S("1")

\* C6 as stated: when the local table has a column named exactly "Id", the
\* merged table has a SiteTrackerAttachmentUrl column holding
\* <base>/lightning/r/sitetracker__Attachment__c/<Id>/view where Id is present
\* and a true missing value (no string, so no "nan") where Id is missing; when
\* the local table has no "Id" column, no such column is added.
C6_AttachmentUrlIffLocalId ==
    Merged =>
       IF "Id" \in Range(local_df.cols)
       THEN /\ "SiteTrackerAttachmentUrl" \in Range(merged.cols)
            /\ \A i \in DOMAIN merged.rows :
                  LET id == merged.rows[i]["Id"]
                      url == merged.rows[i]["SiteTrackerAttachmentUrl"]
                  IN IF id.k = "str"
                     THEN url = Str(InstanceUrl.s
                                    \o <<"/lightning/r/sitetracker__Attachment__c/">>
                                    \o id.s \o <<"/view">>)
                     ELSE url = NA /\ url.k # "str"
       ELSE "SiteTrackerAttachmentUrl" \notin Range(merged.cols)

\* The rows of the typed fetched table whose identifier is d.
RowsOf(d) == {p \in DOMAIN content_versions.rows : content_versions.rows[p][KeyCol] = d}

\* The filtered, deduplicated table has been built (content_versions holds the
\* fetched rows with their identifiers as strings).
Filtered == mergePc \in {"urls", "merge", "done"}

\* C10: the filtered/deduplicated metadata table holds only rows whose
\* identifier is in the identifier set of the local table, at most one row per
\* identifier, for each identifier of the set that was fetched the first
\* fetched row with it, and the kept rows in their fetched order.
C10_FilteredFirstOccurrences ==
    Filtered =>
       LET m == matched_files.rows
           cv == content_versions.rows
           \* the fetched position of the i-th kept row
           pos == [i \in DOMAIN m |->
                     CHOOSE p \in DOMAIN cv \cup {0} :
                        \/ p # 0 /\ \A c \in Range(content_versions.cols) : cv[p][c] = m[i][c]
                        \/ p = 0 /\ ~\E q \in DOMAIN cv :
                                       \A c \in Range(content_versions.cols) : cv[q][c] = m[i][c]]
       IN /\ merge_docids = extract_docids(local_df, DocIdCol)
          /\ \A i \in DOMAIN m : m[i][KeyCol] \in merge_docids
          /\ \A i, j \in DOMAIN m : i # j => m[i][KeyCol] # m[j][KeyCol]
          /\ \A i \in DOMAIN m :
                /\ pos[i] # 0
                /\ \A q \in RowsOf(m[i][KeyCol]) : pos[i] <= q
          /\ \A i, j \in DOMAIN m : i < j => pos[i] < pos[j]
          /\ \A d \in merge_docids : RowsOf(d) # {} => \E i \in DOMAIN m : m[i][KeyCol] = d

\* Three rows were fetched: one whose identifier no local row has, then two
\* with the same local identifier; only the first of those two is kept.
C10_Witness ==
    /\ mergePc = "urls"
    /\ merge_docids = {S("D2")}
    /\ Len(content_versions.rows) = 3
    /\ content_versions.rows[1][KeyCol] = S("D1")
    /\ content_versions.rows[2][KeyCol] = S("D2")
    /\ content_versions.rows[3][KeyCol] = S("D2")
    /\ Len(matched_files.rows) = 1
    /\ matched_files.rows[1]["Title"] = S("2")

---------------------------------------------------------------------------
(* Further properties of bulk2_wait_job, add_file_urls and sf_org_auth.    *)

\* C13: the wait is an unbounded poll with a fixed interval: after every
\* status response whose state is not terminal (a missing or unrecognised
\* state included) it sleeps 3 time-units once and polls again; nothing but a
\* terminal state or a transport error stops it (no poll count, no elapsed
\* time does), and once the server reports a terminal state it has ended.
C13_FixedIntervalUnboundedPoll ==
    /\ [](slept = PollInterval * sleeps)
    /\ [](waitPc = "poll" => sleeps = polls)
    /\ [](waitPc \in {"sleep", "done", "failed"} => sleeps = polls - 1)
    /\ [](waitPc = "sleep" <=> (polls > 0 /\ waitOut.kind = "none" /\ sleeps = polls - 1))
    /\ [](waitPc = "sleep" => ~(info.state \in {S("JobComplete"), S("Failed"), S("Aborted")}))
    /\ [](waitPc \in {"done", "failed"} =>
            \/ info.state \in {S("JobComplete"), S("Failed"), S("Aborted")}
            \/ waitOut.err = "HTTPError")
    /\ [](waitPc = "poll" /\ polls < MaxPolls => ENABLED Poll)
    /\ (waitPc = "sleep" ~> waitPc = "poll")
    /\ (info.state \in {S("JobComplete"), S("Failed"), S("Aborted")}
          ~> waitPc \in {"done", "failed"})

\* Three answers without a terminal state, the last with an unrecognised
\* state, each followed by one sleep of 3: the loop is about to poll again.
C13_Witness ==
    /\ waitPc = "poll" /\ polls = 3 /\ sleeps = 3 /\ slept = 9
    /\ info.state = S("jobcomplete")

\* C14: add_file_urls is a string template: it sets every row's FileUrl to
\* <base URL>/lightning/r/ContentDocument/<identifier>/view, from the base URL
\* and the row's own identifier alone, and it changes no other column and no
\* row count.
C14_FileUrlTemplate ==
    [][mergePc = "urls" =>
         /\ Len(matched_files'.rows) = Len(matched_files.rows)
         /\ matched_files'.cols = Append(matched_files.cols, "FileUrl")
         /\ \A i \in DOMAIN matched_files.rows :
               /\ \A c \in Range(matched_files.cols) :
                     matched_files'.rows[i][c] = matched_files.rows[i][c]
               /\ matched_files'.rows[i]["FileUrl"] =
                     Str(<<"https://org.my.salesforce.com", "/lightning/r/ContentDocument/">>
                         \o matched_files.rows[i][KeyCol].s \o <<"/view">>)]_vars

\* Two rows got their URLs.
C14_Witness ==
    /\ mergePc = "merge" /\ Len(matched_files.rows) = 2
    /\ matched_files.rows[1][KeyCol] = S("D2")
    /\ matched_files.rows[1]["FileUrl"] =
          Str(<<"https://org.my.salesforce.com", "/lightning/r/ContentDocument/", "D2", "/view">>)
    /\ matched_files.rows[2]["FileUrl"] =
          Str(<<"https://org.my.salesforce.com", "/lightning/r/ContentDocument/", "D1", "/view">>)
    /\ matched_files.rows[2]["Title"] = S("2")

\* C15 as stated: pick_cli selects the first of sf.cmd, sf, sfdx.cmd, sfdx on
\* the path, and the describe and login calls use the "org display" /
\* "org login web" form with sf or sf.cmd and the legacy "force:org:display" /
\* "force:auth:web:login" form with sfdx or sfdx.cmd.
C15_CommandFormFollowsCli ==
    /\ authPc # "pick" =>
          \/ cli = NoCli /\ path = {}
          \/ /\ cli \in path
             /\ \A k \in DOMAIN CliOrder :
                   CliOrder[k] = cli => \A j \in 1..(k - 1) : CliOrder[j] \notin path
    /\ \A i \in DOMAIN cmdLog :
          LET argv == cmdLog[i].argv
          IN /\ argv[1] = cli
             /\ IF cli \in {"sf", "sf.cmd"}
                THEN IF cmdLog[i].op = "display"
                     THEN SubSeq(argv, 2, 3) = <<"org", "display">>
                     ELSE SubSeq(argv, 2, 4) = <<"org", "login", "web">>
                ELSE IF cmdLog[i].op = "display"
                     THEN argv[2] = "force:org:display"
                     ELSE argv[2] = "force:auth:web:login"

---------------------------------------------------------------------------
(* Properties of a whole run of main.                                      *)

\* The stage has been entered, whatever its outcome.
Ran_(name) == \E i \in DOMAIN stages : stages[i].stage = name
\* The stage has returned.
Passed(name) == Stage(name, TRUE) \in Range(stages)
\* Lines 446-448 have run: the fetched table got its size columns.
MatchRan == "ContentSizeBytes" \in Range(content_versions.cols)

\* C11 as stated: each data error is fatal, the run ends without writing
\* either report: the identifier column is missing from the local table, no
\* identifier of the local table matched a fetched row, or the fetched
\* result is empty.
C11_DataErrorsAreFatal ==
    LET ColumnMissing == Ran_("load") /\ docid_col \notin Range(dataframe.cols)
        ZeroMatched == MatchRan /\ matched_files.rows = <<>>
        EmptyResult == Passed("fetch") /\ content_versions.rows = <<>>
    IN (ColumnMissing \/ ZeroMatched \/ EmptyResult) =>
          /\ mainPc # "done"
          /\ ~out_files_only.written
          /\ ~out_merged.written

\* C12: the stages run in the order authenticate, load, create job, wait,
\* fetch, write files-only, write merged, and a failed stage ends the run:
\* nothing is fetched before the wait saw JobComplete, no report is written
\* unless the fetch returned rows, and the merged report is written only
\* after the files-only report, so that a run ending between the two writes
\* leaves the files-only report and no merged report.
C12_StagesInOrder ==
    /\ Len(stages) <= Len(StageOrder)
    /\ \A i \in DOMAIN stages : stages[i].stage = StageOrder[i]
    /\ \A i \in 1..(Len(stages) - 1) : stages[i].ok
    /\ (\E i \in DOMAIN stages : ~stages[i].ok) => mainPc = "halted"
    /\ mainPc = "halted" => ~ENABLED MainNext
    /\ Ran_("fetch") => waitOut.kind = "ok" /\ info.state = S("JobComplete")
    /\ (out_files_only.written \/ out_merged.written) =>
          Passed("fetch") /\ content_versions.rows # <<>>
    /\ out_files_only.written <=> Passed("write_files_only")
    /\ out_merged.written <=> Passed("write_merged")
    /\ out_merged.written => out_files_only.written
    /\ (mainPc = "halted" /\ Passed("write_files_only")) =>
          out_files_only.written /\ ~out_merged.written

\* A run that ended in the write of the merged report: the files-only report,
\* with its one matched row, is on disk and the merged report is not.
C12_Witness ==
    /\ mainPc = "halted" /\ Len(stages) = 7 /\ ~stages[7].ok
    /\ out_files_only.written /\ ~out_merged.written
    /\ Len(out_files_only.table.rows) = 1
    /\ Len(merged.rows) = 2

===========================================================================
